---- MODULE Spec2Model ----
(***************************************************************************)
(* Verification model of the smart-contract agent backend:                 *)
(*   - the event-driven workflow of agents/react_agent.py (topics, gates,  *)
(*     nodes, subscriptions),                                              *)
(*   - the approval table and its endpoints (routers/approval.py),         *)
(*   - the chat endpoint that consumes workflow output and creates         *)
(*     approval requests (routers/chat.py),                                *)
(*   - the MCP tools of services/mcp_server/src/servers/server.py that     *)
(*     touch the compilation registry and the chain, inside the workflow   *)
(*     (Spec) and called directly by an MCP client (ServerSpec),           *)
(*   - the nonce of the server-signed deployments (NonceSpec), the wallet  *)
(*     sessions (WalletSpec) and the conversation context the chat         *)
(*     endpoint builds from the stored messages (memory/context.py,        *)
(*     ContextSpec).                                                       *)
(* A language model call is an opaque nondeterministic choice; the chain   *)
(* RPC connection is a nondeterministic up/down choice per tool call.      *)
(***************************************************************************)
EXTENDS Integers, Sequences, FiniteSets, TLC

VARIABLES
    approval_requests,     \* routers/approval.py: approval_id -> request
    compilation_cache,     \* servers/server.py: compilation_id -> entry
    private_key,           \* METAMASK_PRIVATE_KEY is set
    ethereum_sepolia_rpc,  \* ETHEREUM_SEPOLIA_RPC is set
    runs,                  \* the a_invoke calls, in call order
    sent,                  \* history: send_raw_transaction has been called
    approved_seen,         \* history: a respond with approved=true arrived
    output_batch,          \* gate evaluation: the batch the reasoning node publishes
    routing,               \* gate evaluation: where the batch was routed
    reply,                 \* direct tool call: the call and what it returned
    watched,               \* synthesis history: the (source, signer) observed
    synth_seen,            \* synthesis history: arguments returned for it
    cache_before,          \* history: the registry as the last direct call found it
    assistant,             \* main.py lifespan: app.state.assistant was built
    wallet_sessions,       \* routers/wallet.py: conversation_id -> wallet address
    transaction_count,     \* the chain: transactions of the server's account in the latest block
    submitted,             \* the chain: nonces of the transactions the server signed and sent
    printed,               \* stdout of the backend: the lines the topic conditions wrote
    events,                \* event store: the messages recorded for one conversation
    input_data             \* chat.py: the batch of the last chat of that conversation

\* ---------------------------------------------------------------- bounds
MaxRuns == 2
MaxMock == 1
MaxCompilations == 1
MaxBatch == 2
MaxHexLen == 2

\* ------------------------------------------------------- small utilities
RECURSIVE SeqsUpTo(_, _)
SeqsUpTo(S, n) ==
    IF n = 0 THEN {<<>>}
    ELSE LET shorter == SeqsUpTo(S, n - 1)
         IN  shorter \cup {Append(s, x) : s \in shorter, x \in S}

\* ================================================================ gates
\* Content of a message published by the reasoning node, as the gates see
\* it: not a str / a str that is not JSON / a JSON value that is falsy
\* (null, 0, "", [], {}) / a truthy JSON value that is not an object / an
\* object, with each flag true, false or absent.
FlagValues == {"true", "false", "absent"}

ContentKinds == {"notstr", "badjson", "falsy", "nonobj", "obj"}

ReasoningMessages ==
    {[kind |-> k, tool |-> "absent", dep |-> "absent"] :
        k \in ContentKinds \ {"obj"}}
    \cup {[kind |-> "obj", tool |-> t, dep |-> d] : t \in FlagValues, d \in FlagValues}

ReasoningBatches == SeqsUpTo(ReasoningMessages, MaxBatch)

\* parsed.get(flag, default)
FlagGet(v, default) == IF v = "absent" THEN default ELSE v = "true"

\* The part of every gate in front of the flag test: isinstance(content,
\* str), then json.loads (raises on text that is not JSON), then the
\* truthiness of the parsed value, then .get (raises on a non-object).
GatePrefix(m) ==
    CASE m.kind = "notstr"  -> "no"
      [] m.kind = "badjson" -> "raise"
      [] m.kind = "falsy"   -> "no"
      [] m.kind = "nonobj"  -> "raise"
      [] OTHER              -> "obj"

reasoning_output_condition(m) ==
    IF GatePrefix(m) # "obj" THEN GatePrefix(m)
    ELSE IF ~FlagGet(m.tool, TRUE) /\ ~FlagGet(m.dep, TRUE) THEN "pass" ELSE "no"

\* the action gate without its test of requires_deployment
action_whenever_tool_call(m) ==
    IF GatePrefix(m) # "obj" THEN GatePrefix(m)
    ELSE IF FlagGet(m.tool, FALSE) THEN "pass" ELSE "no"

action_condition(m) ==
    IF GatePrefix(m) # "obj" THEN GatePrefix(m)
    ELSE IF FlagGet(m.tool, FALSE) /\ ~FlagGet(m.dep, FALSE) THEN "pass" ELSE "no"

\* the deployment gate passing a response that asks for a tool call too
deployment_or_tool_call(m) ==
    IF GatePrefix(m) # "obj" THEN GatePrefix(m)
    ELSE IF FlagGet(m.dep, FALSE) \/ FlagGet(m.tool, FALSE) THEN "pass" ELSE "no"

deployment_condition(m) ==
    IF GatePrefix(m) # "obj" THEN GatePrefix(m)
    ELSE IF FlagGet(m.dep, FALSE) THEN "pass" ELSE "no"

MessageCondition(t, m) ==
    CASE t = "reasoning_output_topic" -> reasoning_output_condition(m)
      [] t = "action_topic"           -> action_condition(m)
      [] t = "deployment_topic"       -> deployment_condition(m)
      [] OTHER                        -> "pass"

\* any(... for msg in msgs): left to right, stops at the first message that
\* passes, propagates the first exception met before that.
RECURSIVE AnyCondition(_, _)
AnyCondition(t, msgs) ==
    IF msgs = <<>> THEN "no"
    ELSE LET r == MessageCondition(t, Head(msgs))
         IN  IF r = "no" THEN AnyCondition(t, Tail(msgs)) ELSE r

\* ================================================= signed-transaction hex
\* a hex digit and a character that is none
HexAlphabet == {"0", "g"}

HexDigits == {"0", "1", "2", "3", "4", "5", "6", "7", "8", "9",
              "a", "b", "c", "d", "e", "f", "A", "B", "C", "D", "E", "F"}

\* Payloads a caller may pass: any text over the alphabet, bare or behind a
\* "0x" prefix; the empty text is excluded by Field(min_length=1).
HexPayloads ==
    {p \o b : p \in {<<>>, <<"0", "x">>}, b \in SeqsUpTo(HexAlphabet, MaxHexLen)}
        \ {<<>>}

\* str.startswith('0x')
StartsWith0x(s) == Len(s) >= 2 /\ s[1] = "0" /\ s[2] = "x"

\* signed_hex[2:] when the prefix is there
StripPrefix(s) == IF StartsWith0x(s) THEN SubSeq(s, 3, Len(s)) ELSE s

\* bytes.fromhex: consumes two hex digits per byte; TRUE when it returns,
\* FALSE when it raises ValueError (a non-hex character or a lone digit).
RECURSIVE FromHexOk(_)
FromHexOk(s) ==
    IF s = <<>> THEN TRUE
    ELSE IF Len(s) = 1 THEN FALSE
    ELSE /\ s[1] \in HexDigits
         /\ s[2] \in HexDigits
         /\ FromHexOk(SubSeq(s, 3, Len(s)))

\* BroadcastTransactionParams.validate_hex_format: TRUE when v is accepted
validate_hex_format(v) ==
    LET hex_data == IF StartsWith0x(v) THEN SubSeq(v, 3, Len(v)) ELSE v
    IN  FromHexOk(hex_data)

\* ================================================= compilation and ABI
\* Sources the compiler is given: a contract whose constructor takes the
\* owner address, and a text solc rejects.
Sources == {"owned", "bad"}

CompileOk(src) == src # "bad"

BytecodeOf(src) == "bin_" \o src

\* An input of an ABI item: its type and the keywords its lower-cased name
\* contains (the synthesis reads nothing else of the name).
Param(type, has) == [type |-> type, has |-> has]

\* An ABI item: 'type' and 'inputs'
Item(type, inputs) == [type |-> type, inputs |-> inputs]

\* constructor(string name, string symbol, string uri, uint256
\* initialSupply, uint256 maxCap, uint256 supplyCap, uint256 rate,
\* uint8 decimals, uint64 start, bool paused, bytes32 salt,
\* address initialOwner)
TokenInputs ==
    <<Param("string", {"name"}), Param("string", {"symbol"}),
      Param("string", {}), Param("uint256", {"supply"}),
      Param("uint256", {"max", "cap"}), Param("uint256", {"supply", "cap"}),
      Param("uint256", {}), Param("uint8", {}), Param("uint64", {}),
      Param("bool", {}), Param("bytes32", {}), Param("address", {})>>

\* The ABI solc derives from a source: "owned" has a constructor taking the
\* owner address, "token" the constructor above, "noargs" a constructor
\* without inputs, "plain" no constructor, only mint(uint256 amount).
AbiOf(src) ==
    CASE src = "owned"  -> <<Item("constructor", <<Param("address", {})>>)>>
      [] src = "token"  -> <<Item("function", <<Param("uint256", {"amount"})>>),
                             Item("constructor", TokenInputs)>>
      [] src = "noargs" -> <<Item("constructor", <<>>)>>
      [] src = "plain"  -> <<Item("function", <<Param("uint256", {"amount"})>>)>>
      [] OTHER          -> <<>>

\* the loop without the type test: the inputs of the first item of any type
ConstructorInputsOfFirst(abi) ==
    IF abi = <<>> THEN <<>> ELSE Head(abi).inputs

\* for item in abi: if item.get('type') == 'constructor':
\*     constructor_inputs = item.get('inputs', []); break
RECURSIVE ConstructorInputs(_)
ConstructorInputs(abi) ==
    IF abi = <<>> THEN <<>>
    ELSE IF Head(abi).type = "constructor" THEN Head(abi).inputs
    ELSE ConstructorInputs(Tail(abi))

Addresses == {"0xAa", "0xBb", "not-an-address"}

\* w3.to_checksum_address returns for a well-formed address, raises otherwise
ChecksumOk(a) == a # "not-an-address"

\* the uint256 keywords tested in the other order: cap and max first
ConstructorArgCapFirst(param, user_address) ==
    CASE param.type = "address" -> user_address
      [] param.type = "uint256" ->
            IF "cap" \in param.has \/ "max" \in param.has THEN "10000000e18"
            ELSE IF "supply" \in param.has \/ "amount" \in param.has THEN "1000000e18"
            ELSE "0"
      [] param.type = "string" ->
            IF "name" \in param.has THEN "User Token"
            ELSE IF "symbol" \in param.has THEN "UTK"
            ELSE ""
      [] param.type = "uint8" -> "18"
      [] param.type \in {"uint16", "uint32", "uint64", "uint128"} -> "0"
      [] param.type = "bool" -> "False"
      [] OTHER -> ""

\* One constructor argument, by the policy of prepare_deployment_transaction
ConstructorArg(param, user_address) ==
    CASE param.type = "address" -> user_address
      [] param.type = "uint256" ->
            IF "supply" \in param.has \/ "amount" \in param.has THEN "1000000e18"
            ELSE IF "cap" \in param.has \/ "max" \in param.has THEN "10000000e18"
            ELSE "0"
      [] param.type = "string" ->
            IF "name" \in param.has THEN "User Token"
            ELSE IF "symbol" \in param.has THEN "UTK"
            ELSE ""
      [] param.type = "uint8" -> "18"
      [] param.type \in {"uint16", "uint32", "uint64", "uint128"} -> "0"
      [] param.type = "bool" -> "False"
      [] OTHER -> ""

\* the policy of deploy_contract without its uint8 branch: decimals fall to
\* the default of the other unsigned types
ServerConstructorArgNoDecimals(param, owner_address) ==
    CASE param.type = "address" -> owner_address
      [] param.type = "uint256" ->
            IF "supply" \in param.has \/ "amount" \in param.has THEN "1000000e18"
            ELSE IF "cap" \in param.has \/ "max" \in param.has THEN "10000000e18"
            ELSE "0"
      [] param.type = "string" ->
            IF "name" \in param.has THEN "Server Token"
            ELSE IF "symbol" \in param.has THEN "STK"
            ELSE ""
      [] param.type \in {"uint8", "uint16", "uint32", "uint64", "uint128"} -> "0"
      [] param.type = "bool" -> "False"
      [] OTHER -> ""

\* One constructor argument, by the policy of deploy_contract
ServerConstructorArg(param, owner_address) ==
    CASE param.type = "address" -> owner_address
      [] param.type = "uint256" ->
            IF "supply" \in param.has \/ "amount" \in param.has THEN "1000000e18"
            ELSE IF "cap" \in param.has \/ "max" \in param.has THEN "10000000e18"
            ELSE "0"
      [] param.type = "string" ->
            IF "name" \in param.has THEN "Server Token"
            ELSE IF "symbol" \in param.has THEN "STK"
            ELSE ""
      [] param.type = "uint8" -> "18"
      [] param.type \in {"uint16", "uint32", "uint64", "uint128"} -> "0"
      [] param.type = "bool" -> "False"
      [] OTHER -> ""

ServerConstructorArgs(inputs, owner_address) ==
    [i \in 1..Len(inputs) |-> ServerConstructorArg(inputs[i], owner_address)]

\* print(f"[WARNING] Unknown constructor parameter type: {param_type}"):
\* the else branch of both tools, taken by every type without a branch of
\* its own
Warned(inputs) ==
    {inputs[i].type : i \in {j \in 1..Len(inputs) :
        inputs[j].type \notin {"address", "uint256", "string", "uint8"}}}

\* the argument list kept across calls instead of starting empty in each
ConstructorArgsKept(inputs, user_address) ==
    reply.constructor_args \o
        [i \in 1..Len(inputs) |-> ConstructorArg(inputs[i], user_address)]

ConstructorArgs(inputs, user_address) ==
    [i \in 1..Len(inputs) |-> ConstructorArg(inputs[i], user_address)]

\* transaction['data'] of contract.constructor(*args).build_transaction:
\* the bytecode followed by the encoded arguments
TransactionData(entry, user_address) ==
    <<entry.bytecode>> \o ConstructorArgs(ConstructorInputs(entry.abi), user_address)

NoData == <<>>

\* ======================================================= tool calls
CompilationIds == 0..MaxCompilations

ToolNames == {"compile_contract", "deploy_contract",
              "prepare_deployment_transaction", "broadcast_signed_transaction"}

Call(name, cid, addr, src, hex) ==
    [src |-> src, name |-> name, cid |-> cid, addr |-> addr, hex |-> hex]

NoCall == Call("none", 0, "", "", <<>>)

\* The tool calls a language model with the MCP function specs can emit
\* (the server's tools that touch the registry or the chain)
ToolCalls ==
    {Call("compile_contract", 0, "", s, <<>>) : s \in Sources}
    \cup {Call("deploy_contract", c, a, "", <<>>) : c \in CompilationIds, a \in Addresses}
    \cup {Call("prepare_deployment_transaction", c, a, "", <<>>) :
            c \in CompilationIds, a \in Addresses}
    \cup {Call("broadcast_signed_transaction", 0, "", "", h) : h \in HexPayloads}

\* the dict a tool returns: success, message, and compilation_id or
\* transaction['data'] where the tool has one
Result(tool, success, message, cid, data) ==
    [tool |-> tool, cid |-> cid, success |-> success, message |-> message,
     data |-> data]

NoResult == Result("none", FALSE, "", 0, NoData)

\* Python's None and a present value
None == <<>>

Some(x) == <<x>>

\* What the chain answers during one tool call: w3.is_connected(), the
\* caller's gas_limit as it reaches build_transaction, the result of
\* w3.eth.estimate_gas (None when it raises) and get_transaction_count.
Env(connected, gas_limit, estimate, nonce) ==
    [connected |-> connected, gas_limit |-> gas_limit, estimate |-> estimate,
     nonce |-> nonce]

NoEnv == Env(FALSE, 0, None, 0)

\* What a direct caller of a tool gets back: the fields of the returned dict
\* next to the call that produced it. transaction is the dict
\* build_transaction made (data, gas, nonce); warned the types the
\* synthesis printed a warning for; env the chain values a successful call
\* read; raised tells an exception that left the tool instead of a dict.
Reply(call, result, compilation_id, abi, bytecode, transaction, constructor_args, warned, estimated_gas, env, raised) ==
    [abi |-> abi, constructor_args |-> constructor_args, bytecode |-> bytecode,
     call |-> call, result |-> result, compilation_id |-> compilation_id,
     transaction |-> transaction, warned |-> warned,
     estimated_gas |-> estimated_gas, env |-> env, raised |-> raised]

\* a return without any of the optional fields
Plain(call, outcome) ==
    Reply(call, outcome.result, None, None, None, None, <<>>, {}, None, NoEnv,
          outcome.raised)

NoReply == Reply(NoCall, NoResult, None, None, None, None, <<>>, {}, None,
                 NoEnv, FALSE)

\* the key of a synthesis: the ABI and the signer address
Key(abi, signer) == [abi |-> abi, signer |-> signer]

NoKey == Key(<<>>, "")

\* ================================================= workflow graph
\* agents/react_agent.py, _construct_workflow
Topics == {"agent_input_topic", "agent_output_topic", "reasoning_output_topic",
           "action_topic", "action_output_topic", "tool_execution_output_topic",
           "deployment_approval_topic", "prepare_deployment_output_topic",
           "broadcast_deployment_output_topic", "deployment_request_output_topic",
           "deployment_approval_output_topic", "deployment_topic"}

\* InputTopic: where a_invoke publishes the caller's event data
InputTopics == {"agent_input_topic"}

\* OutputTopic and InWorkflowOutputTopic: their events are what a_invoke
\* yields to the caller
OutputTopics == {"agent_output_topic", "prepare_deployment_output_topic"}

Nodes == {"reasoning_node", "action_node", "tool_execution_node", "output_node",
          "deployment_request_node", "deployment_approval_node",
          "prepare_deployment_node", "broadcast_deployment_node"}

\* the subscriptions with the approval node on the topic the outgoing
\* approval topic names as its pair
SubscribedToPairedName(n) ==
    CASE n = "reasoning_node" ->
            {"agent_input_topic", "tool_execution_output_topic",
             "broadcast_deployment_output_topic"}
      [] n = "action_node"               -> {"action_topic"}
      [] n = "tool_execution_node"       -> {"action_output_topic"}
      [] n = "output_node"               -> {"reasoning_output_topic"}
      [] n = "deployment_request_node"   -> {"deployment_topic"}
      [] n = "deployment_approval_node"  -> {"prepare_deployment_output_topic"}
      [] n = "prepare_deployment_node"   -> {"deployment_request_output_topic"}
      [] n = "broadcast_deployment_node" -> {"deployment_approval_output_topic"}

\* .subscribe(...): every subscription is one topic or an OR of topics
Subscribed(n) ==
    CASE n = "reasoning_node" ->
            {"agent_input_topic", "tool_execution_output_topic",
             "broadcast_deployment_output_topic"}
      [] n = "action_node"               -> {"action_topic"}
      [] n = "tool_execution_node"       -> {"action_output_topic"}
      [] n = "output_node"               -> {"reasoning_output_topic"}
      [] n = "deployment_request_node"   -> {"deployment_topic"}
      [] n = "deployment_approval_node"  -> {"deployment_approval_topic"}
      [] n = "prepare_deployment_node"   -> {"deployment_request_output_topic"}
      [] n = "broadcast_deployment_node" -> {"deployment_approval_output_topic"}

\* the publishing with the deployment-request node writing where the
\* prepare node writes
PublishesToPastPrepare(n) ==
    CASE n = "reasoning_node" ->
            <<"reasoning_output_topic", "deployment_topic", "action_topic">>
      [] n = "action_node"               -> <<"action_output_topic">>
      [] n = "tool_execution_node"       -> <<"tool_execution_output_topic">>
      [] n = "output_node"               -> <<"agent_output_topic">>
      [] n = "deployment_request_node"   -> <<"prepare_deployment_output_topic">>
      [] n = "deployment_approval_node"  -> <<"deployment_approval_output_topic">>
      [] n = "prepare_deployment_node"   -> <<"prepare_deployment_output_topic">>
      [] n = "broadcast_deployment_node" -> <<"broadcast_deployment_output_topic">>

\* .publish_to(...), in order
PublishesTo(n) ==
    CASE n = "reasoning_node" ->
            <<"reasoning_output_topic", "deployment_topic", "action_topic">>
      [] n = "action_node"               -> <<"action_output_topic">>
      [] n = "tool_execution_node"       -> <<"tool_execution_output_topic">>
      [] n = "output_node"               -> <<"agent_output_topic">>
      [] n = "deployment_request_node"   -> <<"deployment_request_output_topic">>
      [] n = "deployment_approval_node"  -> <<"deployment_approval_output_topic">>
      [] n = "prepare_deployment_node"   -> <<"prepare_deployment_output_topic">>
      [] n = "broadcast_deployment_node" -> <<"broadcast_deployment_output_topic">>

\* .tool(...): the reasoning model, a model that may call tools, the model
\* that writes the final answer, or the MCP function-call tool
LlmNodes == {"action_node", "deployment_request_node", "deployment_approval_node"}

McpNodes == {"tool_execution_node", "prepare_deployment_node",
             "broadcast_deployment_node"}

\* ---------------------------------------------------------- messages
\* A batch on a topic: text, a message with a tool call, or a tool result.
\* Of a tool call only the function name is kept on the topic; its
\* arguments, which nothing reads before the call is executed, are drawn
\* when the MCP tool executes it.
Msg(type, tool, result) == [tool |-> tool, type |-> type, result |-> result]

Empty == Msg("empty", "none", NoResult)

Text == Msg("text", "none", NoResult)

CallTo(tool) == Msg("call", tool, NoResult)

ResultOf(result) == Msg("result", "none", result)

EmptyTopics == [t \in Topics |-> Empty]

\* --------------------------------------------------------- identifiers
\* conversation ids: the one of the chat request (the client's, or a uuid4
\* the client is handed back), or a uuid4 drawn by submit_approval_response
\* (fresh, numbered here by the invocation that drew it)
ClientConv == [n |-> 0, src |-> "client"]

FreshConv(k) == [n |-> k, src |-> "uuid"]

NoConv == [n |-> 0, src |-> "none"]

\* approval ids: f"chat_approval_{uuid}" or a bare uuid (mock requests)
ApprovalId(prefix, k) == [n |-> k, prefix |-> prefix]

NoApproval == ApprovalId("none", 0)

\* the data field of the mock request
MockData == <<"0x608060405234801561001057600080fd5b50...">>

vars == <<approval_requests, compilation_cache, private_key,
          ethereum_sepolia_rpc, runs, sent, approved_seen, output_batch,
          routing, reply, watched, synth_seen, cache_before, assistant,
          wallet_sessions, transaction_count, submitted, printed, events, input_data>>

\* what start-up fixes: the server's environment and, in the backend,
\* whether create_react_assistant succeeded (None is the fallback mode)
config == <<private_key, ethereum_sepolia_rpc, assistant>>

gate == <<output_batch, routing, printed>>

\* what the chain holds of the account of METAMASK_PRIVATE_KEY
chain == <<transaction_count, submitted>>

server == <<reply, watched, synth_seen, cache_before>>

\* routing of a batch: not yet published, published to the topics whose
\* gates passed, or stopped by a gate that raised
Routing(state, topics) == [state |-> state, topics |-> topics]

Unpublished == Routing("unpublished", {})

RunIds == 1..Len(runs)

Running(r) == runs[r].status = "running"

\* no unconsumed batch is left on any topic of the run
Quiescent(r) == \A t \in Topics : runs[r].pending[t] = Empty

Init ==
    /\ approval_requests = <<>>
    /\ compilation_cache = <<>>
    /\ private_key \in BOOLEAN
    /\ ethereum_sepolia_rpc \in BOOLEAN
    /\ runs = <<>>
    /\ sent = FALSE
    /\ approved_seen = FALSE
    /\ output_batch = <<>>
    /\ routing = Unpublished
    /\ reply = NoReply
    /\ watched = NoKey
    /\ synth_seen = {}
    /\ cache_before = <<>>
    /\ assistant \in BOOLEAN
    /\ wallet_sessions = <<>>
    /\ transaction_count = 0
    /\ submitted = <<>>
    /\ printed = <<>>
    /\ events = <<>>
    /\ input_data = <<>>

\* ================================================= MCP tools (server.py)
\* Each tool returns [result, sends]: the dict it returns and whether it
\* reached w3.eth.send_raw_transaction. connected is w3.is_connected().
\* raised: the tool ended in an exception instead of returning a dict.
Outcome(result, sends, raised) ==
    [result |-> result, raised |-> raised, sends |-> sends]

Failure(call, message) ==
    Outcome(Result(call.name, FALSE, message, 0, NoData), FALSE, FALSE)

Success(call, message, cid, data, sends) ==
    Outcome(Result(call.name, TRUE, message, cid, data), sends, FALSE)

\* an exception no except clause of the tool catches
Raised(call, error) ==
    Outcome(Result(call.name, FALSE, error, 0, NoData), FALSE, TRUE)

\* one id generated when the module is loaded and used by every compilation
ImportCompilationId ==
    CHOOSE id \in CompilationIds \ {0} :
        \A other \in CompilationIds \ {0} : id <= other

\* compile_contract: a fresh uuid4 per successful compilation
NextCompilationId == Cardinality(DOMAIN compilation_cache) + 1

compile_contract(call) ==
    IF CompileOk(call.src)
    THEN Success(call, "Contract compiled successfully", NextCompilationId,
                 NoData, FALSE)
    ELSE Failure(call, "Compilation failed")

\* the entry stored before the compiler has accepted the source
CacheAfterAnyCompile(call) ==
    IF call.name = "compile_contract"
    THEN (NextCompilationId :>
            [abi |-> AbiOf(call.src), bytecode |-> BytecodeOf(call.src),
             source_code |-> call.src]) @@ compilation_cache
    ELSE compilation_cache

\* the registry assigned anew with the one entry instead of inserted into
CacheAfterReset(call) ==
    IF call.name = "compile_contract" /\ CompileOk(call.src)
    THEN NextCompilationId :>
            [abi |-> AbiOf(call.src), bytecode |-> BytecodeOf(call.src),
             source_code |-> call.src]
    ELSE compilation_cache

\* the registry entry marked by the preparation that used it
CacheAfterPrepared(call) ==
    IF call.name = "compile_contract" /\ CompileOk(call.src)
    THEN (NextCompilationId :>
            [abi |-> AbiOf(call.src), bytecode |-> BytecodeOf(call.src),
             source_code |-> call.src]) @@ compilation_cache
    ELSE IF /\ call.name = "prepare_deployment_transaction"
            /\ call.cid \in DOMAIN compilation_cache
    THEN [compilation_cache EXCEPT ![call.cid].source_code = "prepared"]
    ELSE compilation_cache

CacheAfter(call) ==
    IF call.name = "compile_contract" /\ CompileOk(call.src)
    THEN (NextCompilationId :>
            [abi |-> AbiOf(call.src), bytecode |-> BytecodeOf(call.src),
             source_code |-> call.src]) @@ compilation_cache
    ELSE compilation_cache

\* the owner address converted next to the id test, before the try block
deploy_contract_unguarded(call, connected) ==
    IF call.cid \notin DOMAIN compilation_cache
    THEN Failure(call, "Invalid compilation ID")
    ELSE IF ~ChecksumOk(call.addr) THEN Raised(call, "ValueError")
    ELSE IF ~private_key THEN Failure(call, "Private key not configured")
    ELSE IF ~ethereum_sepolia_rpc THEN Failure(call, "Ethereum RPC URL not configured")
    ELSE IF ~connected THEN Failure(call, "Failed to connect to Ethereum network")
    ELSE Success(call, "Contract deployed successfully", 0, NoData, TRUE)

\* the tool with no test of ETHEREUM_SEPOLIA_RPC: the client is built on
\* whatever endpoint it defaults to
deploy_contract_default_rpc(call, connected) ==
    IF call.cid \notin DOMAIN compilation_cache
    THEN Failure(call, "Invalid compilation ID")
    ELSE IF ~private_key THEN Failure(call, "Private key not configured")
    ELSE IF ~connected THEN Failure(call, "Failed to connect to Ethereum network")
    ELSE IF ~ChecksumOk(call.addr) THEN Failure(call, "Deployment failed")
    ELSE Success(call, "Contract deployed successfully", 0, NoData, TRUE)

\* deploy_contract: the legacy path that signs with the server's key
deploy_contract(call, connected) ==
    IF call.cid \notin DOMAIN compilation_cache
    THEN Failure(call, "Invalid compilation ID")
    ELSE IF ~private_key THEN Failure(call, "Private key not configured")
    ELSE IF ~ethereum_sepolia_rpc THEN Failure(call, "Ethereum RPC URL not configured")
    ELSE IF ~connected THEN Failure(call, "Failed to connect to Ethereum network")
    ELSE IF ~ChecksumOk(call.addr) THEN Failure(call, "Deployment failed")
    ELSE Success(call, "Contract deployed successfully", 0, NoData, TRUE)

prepare_deployment_transaction(call, connected) ==
    IF call.cid \notin DOMAIN compilation_cache
    THEN Failure(call, "Invalid compilation ID")
    ELSE IF ~ethereum_sepolia_rpc THEN Failure(call, "Ethereum RPC URL not configured")
    ELSE IF ~connected THEN Failure(call, "Failed to connect to Ethereum network")
    ELSE IF ~ChecksumOk(call.addr) THEN Failure(call, "Transaction preparation failed")
    ELSE Success(call, "Transaction prepared for user signing", 0,
                 TransactionData(compilation_cache[call.cid], call.addr), FALSE)

\* the tool with the decoding step left out: the text goes to the chain
\* client as it came
broadcast_undecoded(call, connected) ==
    IF ~ethereum_sepolia_rpc THEN Failure(call, "Ethereum RPC URL not configured")
    ELSE IF ~connected THEN Failure(call, "Failed to connect to Ethereum network")
    ELSE Success(call, "Contract deployed successfully with user wallet", 0,
                 NoData, TRUE)

broadcast_signed_transaction(call, connected) ==
    IF ~ethereum_sepolia_rpc THEN Failure(call, "Ethereum RPC URL not configured")
    ELSE IF ~connected THEN Failure(call, "Failed to connect to Ethereum network")
    ELSE IF ~FromHexOk(StripPrefix(call.hex))
    THEN Failure(call, "Transaction broadcast failed")
    ELSE Success(call, "Contract deployed successfully with user wallet", 0,
                 NoData, TRUE)

ExecuteTool(call, connected) ==
    CASE call.name = "compile_contract" -> compile_contract(call)
      [] call.name = "deploy_contract" -> deploy_contract(call, connected)
      [] call.name = "prepare_deployment_transaction" ->
            prepare_deployment_transaction(call, connected)
      [] call.name = "broadcast_signed_transaction" ->
            broadcast_signed_transaction(call, connected)

\* ================================================= approval table
Unprocessed == {id \in DOMAIN approval_requests : ~approval_requests[id].processed}

\* the assignment written as a toggle of the flag
MarkToggled(table, id) == [table EXCEPT ![id].processed = ~@]

\* approval_requests[...]["processed"] = True
MarkProcessed(table, id) == [table EXCEPT ![id].processed = TRUE]

\* the scan with the processed test inverted: it matches handled requests
ExistingProcessed(data) ==
    {id \in DOMAIN approval_requests :
        approval_requests[id].processed /\ approval_requests[id].data = data}

\* the scan without the processed test: it matches any request of that data
ExistingAnyState(data) ==
    {id \in DOMAIN approval_requests : approval_requests[id].data = data}

\* chat.py: the scan for a pending request with the same transaction data
ExistingApproval(data) ==
    {id \in DOMAIN approval_requests :
        ~approval_requests[id].processed /\ approval_requests[id].data = data}

\* uuid4: an id no request has; numbered per kind of request
NextApprovalId(prefix) ==
    ApprovalId(prefix,
               Cardinality({id \in DOMAIN approval_requests : id.prefix = prefix}) + 1)

Request(id, data, conv) ==
    [data |-> data, processed |-> FALSE, conv |-> conv, approval_id |-> id]

\* the handler without the test of mcp_response.get('success')
ChatHandleAnyResult(m, conv) ==
    IF /\ m.type = "result"
       /\ m.result.tool = "prepare_deployment_transaction"
       /\ ExistingApproval(m.result.data) = {}
    THEN LET id == NextApprovalId("chat")
         IN  (id :> Request(id, m.result.data, conv)) @@ approval_requests
    ELSE approval_requests

\* the handler inserting without the scan for a pending request
ChatHandleNoScan(m, conv) ==
    IF /\ m.type = "result"
       /\ m.result.tool = "prepare_deployment_transaction"
       /\ m.result.success
    THEN LET id == NextApprovalId("chat")
         IN  (id :> Request(id, m.result.data, conv)) @@ approval_requests
    ELSE approval_requests

\* chat.py: what the chat endpoint does with one message of a yielded
\* event. Only a prepare_deployment_transaction result has both a 'success'
\* and a 'transaction' key; a successful one creates a request unless a
\* pending one carries the same data.
ChatHandle(m, conv) ==
    IF /\ m.type = "result"
       /\ m.result.tool = "prepare_deployment_transaction"
       /\ m.result.success
       /\ ExistingApproval(m.result.data) = {}
    THEN LET id == NextApprovalId("chat")
         IN  (id :> Request(id, m.result.data, conv)) @@ approval_requests
    ELSE approval_requests

\* ================================================= workflow invocation
\* assistant.a_invoke(input_event) with a fresh assistant_request_id: the
\* workflow has no stored events for it, so it starts a new run by
\* publishing the event's data to its InputTopic, whatever topic_name the
\* caller wrote on the event. topic_name and the identifiers are kept as
\* the caller set them.
NewRun(kind, conv, topic_name, approval_id, approved) ==
    [kind |-> kind, status |-> "running",
     pending |-> [t \in Topics |-> IF t \in InputTopics THEN Text ELSE Empty],
     conv |-> conv, approval_id |-> approval_id, topic_name |-> topic_name,
     approved |-> approved]

\* what is left of an invocation once its handler has answered: the
\* InvokeContext, the topic state and the handler's locals are gone
Finished ==
    [kind |-> "none", status |-> "finished", pending |-> EmptyTopics,
     conv |-> NoConv, approval_id |-> NoApproval, topic_name |-> "",
     approved |-> FALSE]

\* at most MaxRuns invocations; the requests are served one after the other
CanInvoke ==
    /\ Len(runs) < MaxRuns
    /\ \A r \in RunIds : ~Running(r)

Decision(run) ==
    IF run.kind # "respond" THEN "none"
    ELSE IF run.approved THEN "approved" ELSE "rejected"

\* chat_endpoint up to the a_invoke call; without an assistant it answers
\* with a canned text
ChatCall ==
    /\ assistant
    /\ CanInvoke
    /\ runs' = Append(runs,
                      NewRun("chat", ClientConv, "agent_input_topic", NoApproval,
                             FALSE))
    /\ UNCHANGED <<approval_requests, compilation_cache, config, wallet_sessions, chain, events, input_data, sent,
                   approved_seen, gate, server>>

\* ids a client may send to respond: the known ones and one never issued
RespondIds == DOMAIN approval_requests \cup {ApprovalId("unknown", 0)}


\* the handler marking the request before it invokes the workflow
RespondCallMarkingFirst(id, approved) ==
    /\ assistant
    /\ CanInvoke
    /\ runs' = Append(runs,
                      NewRun("respond", FreshConv(Len(runs) + 1),
                             "deployment_approval_input", id, approved))
    /\ approved_seen' = (approved_seen \/ approved)
    /\ approval_requests' = IF id \in DOMAIN approval_requests
                            THEN MarkProcessed(approval_requests, id)
                            ELSE approval_requests
    /\ UNCHANGED <<compilation_cache, config, wallet_sessions, chain, events, input_data, sent, gate, server>>

\* submit_approval_response up to the a_invoke call: a new InvokeContext
\* with uuid4 ids, the decision as a user message, topic_name
\* "deployment_approval_input". Without an assistant the 503 it raises is
\* caught by its own except and answered as success=False.
RespondCall(id, approved) ==
    /\ assistant
    /\ CanInvoke
    /\ runs' = Append(runs,
                      NewRun("respond", FreshConv(Len(runs) + 1),
                             "deployment_approval_input", id, approved))
    /\ approved_seen' = (approved_seen \/ approved)
    /\ UNCHANGED <<approval_requests, compilation_cache, config, wallet_sessions, chain, events, input_data, sent, gate, server>>

Respond == \E id \in RespondIds, approved \in BOOLEAN : RespondCall(id, approved)

\* The end of the async-for over a_invoke: the workflow has nothing left to
\* fire. submit_approval_response then marks the request, if it is in the
\* table; chat_endpoint returns its response.
Return(r) ==
    /\ Running(r)
    /\ Quiescent(r)
    /\ runs' = [runs EXCEPT ![r] = Finished]
    /\ approval_requests' =
          IF runs[r].kind = "respond" /\ runs[r].approval_id \in DOMAIN approval_requests
          THEN MarkProcessed(approval_requests, runs[r].approval_id)
          ELSE approval_requests
    /\ UNCHANGED <<compilation_cache, config, wallet_sessions, chain, events, input_data, sent, approved_seen, gate, server>>

\* One event yielded by a_invoke to the caller's async-for body
Deliver(r, t) ==
    /\ Running(r)
    /\ runs[r].pending[t] # Empty
    /\ approval_requests' =
          IF runs[r].kind = "chat"
          THEN ChatHandle(runs[r].pending[t], runs[r].conv)
          ELSE approval_requests
    /\ runs' = [runs EXCEPT ![r].pending[t] = Empty,
                            ![r].approval_id =
                                IF approval_requests' # approval_requests
                                THEN NextApprovalId("chat") ELSE @]
    /\ UNCHANGED <<compilation_cache, config, wallet_sessions, chain, events, input_data, sent, approved_seen, gate, server>>

\* create_mock_approval_request, called at most limit times
create_mock_approval_request(limit) ==
    /\ NextApprovalId("mock").n <= limit
    /\ LET id == NextApprovalId("mock")
       IN  approval_requests' =
              (id :> Request(id, MockData, NoConv)) @@ approval_requests
    /\ UNCHANGED <<compilation_cache, config, wallet_sessions, chain, events, input_data, runs, sent, approved_seen, gate, server>>

MockRequest == create_mock_approval_request(MaxMock)

\* the listing without its filter on the processed entry
poll_everything ==
    IF ~assistant
    THEN [has_requests |-> FALSE, requests |-> {}]
    ELSE [has_requests |-> Cardinality(DOMAIN approval_requests) > 0,
          requests |-> DOMAIN approval_requests]

\* poll_approval_requests: a read of the table, no state changes. Without
\* an assistant it answers that nothing is pending; otherwise it lists the
\* requests whose processed entry is not set.
poll_approval_requests ==
    IF ~assistant
    THEN [has_requests |-> FALSE, requests |-> {}]
    ELSE LET pending_requests ==
                {id \in DOMAIN approval_requests :
                    ~approval_requests[id].processed}
         IN  [has_requests |-> Cardinality(pending_requests) > 0,
              requests |-> pending_requests]

\* routers/transactions.py broadcast_signed_transaction: it awaits the
\* async generator a_invoke returns, which raises TypeError before the
\* workflow starts; the handler answers success=False and nothing changes.
TransactionsBroadcast == [success |-> FALSE]

\* ================================================= node firing
\* A node is ready when a topic it subscribes to holds a batch it has not
\* consumed; it fires once its own output topics have been drained.
Ready(r, n) ==
    /\ Running(r)
    /\ \E t \in Subscribed(n) : runs[r].pending[t] # Empty
    /\ \A i \in 1..Len(PublishesTo(n)) : runs[r].pending[PublishesTo(n)[i]] = Empty

\* the batch the node consumes (one of its subscribed topics holds one)
Consumed(r, n) ==
    LET t == CHOOSE t \in Subscribed(n) : runs[r].pending[t] # Empty
    IN  runs[r].pending[t]

\* pending after n consumed its inputs and published m to the topics in out
AfterFiring(r, n, out, m) ==
    [t \in Topics |->
        IF t \in out THEN m
        ELSE IF t \in Subscribed(n) THEN Empty
        ELSE runs[r].pending[t]]

\* an exception in a node or a gate ends a_invoke: the caller's except
\* clause answers (fallback response / success=False) and nothing more of
\* the run is executed
Aborted(r, n) == [runs EXCEPT ![r] = Finished]

Fired(r, n, out, m) == [runs EXCEPT ![r].pending = AfterFiring(r, n, out, m)]

\* the messages any() takes from the batch: up to and including the first
\* one that passes or raises
RECURSIVE Evaluated(_, _)
Evaluated(t, msgs) ==
    IF msgs = <<>> THEN 0
    ELSE IF MessageCondition(t, Head(msgs)) = "no"
         THEN 1 + Evaluated(t, Tail(msgs))
         ELSE 1

\* the lines one evaluation of the condition of t writes to stdout: two
\* of the conditions call print for every message they look at
ConditionLines(t, msgs) ==
    IF t \in {"reasoning_output_topic", "deployment_topic"}
    THEN [i \in 1..Evaluated(t, msgs) |-> t]
    ELSE <<>>

\* Publishing the reasoning batch: the gates are evaluated in publish_to
\* order; a gate that raises stops the publishing.
GateResults(batch) ==
    [i \in 1..3 |-> AnyCondition(PublishesTo("reasoning_node")[i], batch)]

RaisesAt(res) == {i \in 1..3 : res[i] = "raise"}

PassingTopics(batch) ==
    LET res == GateResults(batch)
    IN  {PublishesTo("reasoning_node")[i] : i \in
            {i \in 1..3 : res[i] = "pass" /\ \A j \in RaisesAt(res) : i < j}}

\* what one call of the reasoning model answers: one message (the
\* OpenAITool is built without an n parameter), of any content
ReasoningOutputs == {<<m>> : m \in ReasoningMessages}

\* stdout after the publishing of batch: the lines of every condition
\* evaluated, a condition that raises being the last one
GateLines(batch) ==
    LET res == GateResults(batch)
        line(i) == IF \A j \in RaisesAt(res) : i <= j
                   THEN ConditionLines(PublishesTo("reasoning_node")[i], batch)
                   ELSE <<>>
    IN  line(1) \o line(2) \o line(3)

FireReasoning(r) ==
    /\ Ready(r, "reasoning_node")
    /\ \E batch \in ReasoningOutputs :
          runs' = IF RaisesAt(GateResults(batch)) # {}
                  THEN Aborted(r, "reasoning_node")
                  ELSE Fired(r, "reasoning_node", PassingTopics(batch), Text)
    /\ UNCHANGED <<approval_requests, compilation_cache, config, wallet_sessions, chain, events, input_data, sent,
                   approved_seen, gate, server>>

\* a language-model node: its answer is text or one tool call. The
\* workflow hands the function specs of a function-call node to every
\* language-model node that publishes to a topic it subscribes to, so each
\* of these nodes can name any MCP tool.
FireLlm(r, n) ==
    /\ n \in LlmNodes
    /\ Ready(r, n)
    /\ \E m \in {Text} \cup {CallTo(tool) : tool \in ToolNames} :
          runs' = Fired(r, n, {PublishesTo(n)[1]}, m)
    /\ UNCHANGED <<approval_requests, compilation_cache, config, wallet_sessions, chain, events, input_data, sent,
                   approved_seen, gate, server>>

\* output_node: the final answer
FireOutput(r) ==
    /\ Ready(r, "output_node")
    /\ runs' = Fired(r, "output_node", {"agent_output_topic"}, Text)
    /\ UNCHANGED <<approval_requests, compilation_cache, config, wallet_sessions, chain, events, input_data, sent,
                   approved_seen, gate, server>>

\* the registry is capped at MaxCompilations entries
Executable(c) ==
    (c.name = "compile_contract" /\ CompileOk(c.src)) =>
        Cardinality(DOMAIN compilation_cache) < MaxCompilations

\* a node whose tool is the MCP function-call tool: it executes the tool
\* call of the message it consumes and raises when there is none
FireMcp(r, n) ==
    /\ n \in McpNodes
    /\ Ready(r, n)
    /\ LET m == Consumed(r, n)
       IN  IF m.type # "call"
           THEN /\ runs' = Aborted(r, n)
                /\ UNCHANGED <<compilation_cache, sent>>
           ELSE \E call \in {c \in ToolCalls : c.name = m.tool /\ Executable(c)},
                   connected \in BOOLEAN :
                  LET o == ExecuteTool(call, connected)
                  IN  /\ runs' = Fired(r, n, {PublishesTo(n)[1]}, ResultOf(o.result))
                      /\ compilation_cache' = CacheAfter(call)
                      /\ sent' = (sent \/ o.sends)
    /\ UNCHANGED <<approval_requests, config, wallet_sessions, chain, events, input_data, approved_seen, gate, server>>

Next ==
    \/ ChatCall
    \/ Respond
    \/ MockRequest
    \/ \E r \in RunIds : Return(r)
    \/ \E r \in RunIds, t \in OutputTopics : Deliver(r, t)
    \/ \E r \in RunIds : FireReasoning(r)
    \/ \E r \in RunIds : FireOutput(r)
    \/ \E r \in RunIds, n \in Nodes : FireLlm(r, n)
    \/ \E r \in RunIds, n \in Nodes : FireMcp(r, n)

Spec == Init /\ [][Next]_vars

\* The steps the event loop takes on its own once an invocation is in
\* progress: a ready node is invoked, a yielded event reaches the caller's
\* loop body, and the caller returns when the generator is exhausted.
WorkflowStep ==
    \/ \E r \in RunIds : Return(r)
    \/ \E r \in RunIds, t \in OutputTopics : Deliver(r, t)
    \/ \E r \in RunIds : FireReasoning(r)
    \/ \E r \in RunIds : FireOutput(r)
    \/ \E r \in RunIds, n \in Nodes : FireLlm(r, n)
    \/ \E r \in RunIds, n \in Nodes : FireMcp(r, n)

\* asyncio runs every task that is ready: a workflow step that stays
\* enabled is eventually taken
LiveSpec == Init /\ [][Next]_vars /\ WF_vars(WorkflowStep)

\* ================================================= gate evaluation
\* The publishing step of the reasoning node on its own, for every batch
\* of up to MaxBatch messages.
GateInit ==
    /\ approval_requests = <<>>
    /\ compilation_cache = <<>>
    /\ private_key \in BOOLEAN
    /\ ethereum_sepolia_rpc \in BOOLEAN
    /\ runs = <<>>
    /\ sent = FALSE
    /\ approved_seen = FALSE
    /\ output_batch \in ReasoningBatches
    /\ routing = Unpublished
    /\ reply = NoReply
    /\ watched = NoKey
    /\ synth_seen = {}
    /\ cache_before = <<>>
    /\ assistant = TRUE
    /\ wallet_sessions = <<>>
    /\ transaction_count = 0
    /\ submitted = <<>>
    /\ printed = <<>>
    /\ events = <<>>
    /\ input_data = <<>>

PublishBatch ==
    /\ routing = Unpublished
    /\ routing' = Routing(IF RaisesAt(GateResults(output_batch)) # {}
                          THEN "raised" ELSE "published",
                          PassingTopics(output_batch))
    /\ printed' = printed \o GateLines(output_batch)
    /\ UNCHANGED <<approval_requests, compilation_cache, config, wallet_sessions, chain, events, input_data, runs, sent,
                   approved_seen, output_batch, server>>

GateNext == PublishBatch

GateSpec == GateInit /\ [][GateNext]_vars

\* ================================================= the tools, called directly
\* An MCP client calls the six tools of servers/server.py in any order with
\* any arguments; the registry holds up to MaxEntries entries.
MaxEntries == 2

ServerSources == {"token", "noargs", "plain", "bad"}

\* 0 is never a key of the registry
EntryIds == 0..MaxEntries

\* gas_limit: Field(default=2000000, ge=21000, le=10000000)
GasLimits == {21000, 2000000}

\* answers of w3.eth.estimate_gas: a multiple of five and its successor
GasEstimates == {21000, 21001}

\* the chain values a call can read; gas_limit is varied where it stays in
\* the transaction (estimate_gas raised or is not called), the default
\* otherwise
Envs ==
    {Env(TRUE, g, None, n) : g \in GasLimits, n \in {0, 1}}
    \cup {Env(TRUE, 2000000, Some(e), n) : e \in GasEstimates, n \in {0, 1}}

\* the estimate passed on without the margin
RecommendedGasUnpadded(gas_limit, estimate) ==
    IF estimate = None THEN gas_limit ELSE estimate[1]

\* recommended_gas: int(estimated_gas * 1.2), or gas_limit when estimate_gas
\* raised. The float product of an integer below 2^50 and 1.2 has the
\* integer part of the exact product 12 * e / 10.
RecommendedGas(gas_limit, estimate) ==
    IF estimate = None THEN gas_limit ELSE (estimate[1] * 12) \div 10

CompileReturn(call) ==
    LET o == compile_contract(call)
    IN  Reply(call, o.result,
              IF o.result.success THEN Some(o.result.cid) ELSE None,
              None, None, None, <<>>, {}, None, NoEnv, o.raised)

get_abi(call) ==
    IF call.cid \notin DOMAIN compilation_cache
    THEN Plain(call, Failure(call, "Invalid compilation ID"))
    ELSE Reply(call, Result(call.name, TRUE, "ABI retrieved successfully", 0, NoData),
               None, Some(compilation_cache[call.cid].abi), None, None,
               <<>>, {}, None, NoEnv, FALSE)

\* the lookup reading the wrong key of the entry
get_bytecode_source(call) ==
    IF call.cid \notin DOMAIN compilation_cache
    THEN Plain(call, Failure(call, "Invalid compilation ID"))
    ELSE Reply(call, Result(call.name, TRUE, "Bytecode retrieved successfully", 0, NoData),
               None, None, Some(compilation_cache[call.cid].source_code), None,
               <<>>, {}, None, NoEnv, FALSE)

get_bytecode(call) ==
    IF call.cid \notin DOMAIN compilation_cache
    THEN Plain(call, Failure(call, "Invalid compilation ID"))
    ELSE Reply(call, Result(call.name, TRUE, "Bytecode retrieved successfully", 0, NoData),
               None, None, Some(compilation_cache[call.cid].bytecode), None,
               <<>>, {}, None, NoEnv, FALSE)

\* deploy_contract: the transaction it signs and sends carries gas_limit
DeployReturn(call, env) ==
    LET o == deploy_contract(call, env.connected)
        inputs == ConstructorInputs(compilation_cache[call.cid].abi)
        args == ServerConstructorArgs(inputs, call.addr)
    IN  IF ~o.result.success THEN Plain(call, o)
        ELSE Reply(call, o.result, None, None, None,
                   Some([data |-> <<compilation_cache[call.cid].bytecode>> \o args,
                         nonce |-> env.nonce, gas |-> env.gas_limit]),
                   args, Warned(inputs), None, env, o.raised)

PrepareReturn(call, env) ==
    LET o == prepare_deployment_transaction(call, env.connected)
        inputs == ConstructorInputs(compilation_cache[call.cid].abi)
        recommended_gas == RecommendedGas(env.gas_limit, env.estimate)
    IN  IF ~o.result.success THEN Plain(call, o)
        ELSE Reply(call, o.result, None, None, None,
                   Some([data |-> o.result.data, nonce |-> env.nonce,
                         gas |-> recommended_gas]),
                   ConstructorArgs(inputs, call.addr), Warned(inputs),
                   Some(recommended_gas), env, o.raised)

BroadcastReturn(call, env) ==
    Plain(call, broadcast_signed_transaction(call, env.connected))

ReplyTo(call, env) ==
    CASE call.name = "compile_contract" -> CompileReturn(call)
      [] call.name = "get_abi" -> get_abi(call)
      [] call.name = "get_bytecode" -> get_bytecode(call)
      [] call.name = "deploy_contract" -> DeployReturn(call, env)
      [] call.name = "prepare_deployment_transaction" -> PrepareReturn(call, env)
      [] call.name = "broadcast_signed_transaction" -> BroadcastReturn(call, env)

\* send_raw_transaction is reached by the two tools that end in it
Sends(call, env) ==
    /\ call.name \in {"deploy_contract", "broadcast_signed_transaction"}
    /\ ExecuteTool(call, env.connected).sends

\* history: the first registry size at which each argument list was
\* returned for the watched ABI and signer
SeenAfter(call, r) ==
    IF /\ call.name = "prepare_deployment_transaction"
       /\ r.result.success
       /\ Key(compilation_cache[call.cid].abi, call.addr) = watched
       /\ \A h \in synth_seen : h.args # r.constructor_args
    THEN synth_seen \cup {[args |-> r.constructor_args,
                           entries |-> Cardinality(DOMAIN compilation_cache)]}
    ELSE synth_seen

\* one tool call: the registry, the chain and the caller's view after it
Serve(call, env) ==
    LET r == ReplyTo(call, env)
    IN
    /\ reply' = r
    /\ compilation_cache' = CacheAfter(call)
    /\ sent' = (sent \/ Sends(call, env))
    /\ synth_seen' = SeenAfter(call, r)
    /\ cache_before' = compilation_cache
    /\ UNCHANGED <<approval_requests, config, wallet_sessions, chain, events, input_data, runs, approved_seen, gate, watched>>

CallCompile ==
    \E src \in ServerSources :
        /\ CompileOk(src) => Cardinality(DOMAIN compilation_cache) < MaxEntries
        /\ Serve(Call("compile_contract", 0, "", src, <<>>), NoEnv)

CallGetAbi ==
    \E cid \in EntryIds : Serve(Call("get_abi", cid, "", "", <<>>), NoEnv)

CallGetBytecode ==
    \E cid \in EntryIds : Serve(Call("get_bytecode", cid, "", "", <<>>), NoEnv)

\* The chain values a call can observe: all of them when the call gets as
\* far as reading them, the connection alone when it returns earlier.
EnvsRead(outcome) ==
    IF outcome.result.success THEN Envs \cup {Env(FALSE, 0, None, 0)}
    ELSE {Env(c, 0, None, 0) : c \in BOOLEAN}

CallDeploy ==
    \E cid \in EntryIds, addr \in Addresses :
        LET call == Call("deploy_contract", cid, addr, "", <<>>)
        IN  \E env \in EnvsRead(deploy_contract(call, TRUE)) :
                /\ env.estimate = None
                /\ Serve(call, env)

CallPrepare ==
    \E cid \in EntryIds, addr \in Addresses :
        LET call == Call("prepare_deployment_transaction", cid, addr, "", <<>>)
        IN  \E env \in EnvsRead(prepare_deployment_transaction(call, TRUE)) :
                Serve(call, env)

CallBroadcast ==
    \E hex \in HexPayloads, connected \in BOOLEAN :
        Serve(Call("broadcast_signed_transaction", 0, "", "", hex),
              Env(connected, 0, None, 0))

\* the MCP server is its own process; the backend is taken as started
ServerInit == Init /\ assistant

ServerNext ==
    \/ CallCompile
    \/ CallGetAbi
    \/ CallGetBytecode
    \/ CallDeploy
    \/ CallPrepare
    \/ CallBroadcast

ServerSpec == ServerInit /\ [][ServerNext]_vars

\* The calls that write or read what the synthesis reads, with one ABI and
\* signer under observation: the registry starts with the entry of that ABI.
OkSources == {src \in ServerSources : CompileOk(src)}

SynthInit ==
    /\ approval_requests = <<>>
    /\ \E src \in OkSources, a \in {x \in Addresses : ChecksumOk(x)} :
            /\ compilation_cache =
                    (1 :> [abi |-> AbiOf(src), bytecode |-> BytecodeOf(src),
                           source_code |-> src])
            /\ watched = Key(AbiOf(src), a)
    /\ private_key = TRUE
    /\ ethereum_sepolia_rpc = TRUE
    /\ runs = <<>>
    /\ sent = FALSE
    /\ approved_seen = FALSE
    /\ output_batch = <<>>
    /\ routing = Unpublished
    /\ reply = NoReply
    /\ synth_seen = {}
    /\ cache_before = <<>>
    /\ assistant = TRUE
    /\ wallet_sessions = <<>>
    /\ transaction_count = 0
    /\ submitted = <<>>
    /\ printed = <<>>
    /\ events = <<>>
    /\ input_data = <<>>

SynthNext ==
    \/ CallCompile
    \/ CallPrepare

SynthSpec == SynthInit /\ [][SynthNext]_vars

\* ================================================= properties
\* the batch a running invocation holds on topic t
Holds(r, t) == runs[r].pending[t]

\* a tool result that reports a transaction handed to the chain
Submitted(m) ==
    /\ m.type = "result"
    /\ m.result.success
    /\ m.result.tool \in {"deploy_contract", "broadcast_signed_transaction"}

\* the r-th invocation has been made and has not finished
InProgress(r) == r \in RunIds /\ Running(r)

\* C1: a transaction is submitted to the chain (send_raw_transaction is
\* reached) only after a respond with approved=true has been received.
BroadcastOnlyAfterApproval == sent => approved_seen

\* C2: among the requests the chat endpoint created from prepare results,
\* at most one unprocessed request carries a given transaction data; a
\* second result with the data of an unprocessed request creates none.
AtMostOneUnprocessedPerData ==
    \A a \in Unprocessed, b \in Unprocessed :
        (/\ a.prefix = "chat"
         /\ b.prefix = "chat"
         /\ approval_requests[a].data = approval_requests[b].data) => a = b

\* C2 witness: the chat endpoint is about to handle a successful prepare
\* result whose data an unprocessed request already carries
SecondIdenticalResult ==
    \E r \in RunIds :
        /\ Running(r)
        /\ runs[r].kind = "chat"
        /\ LET m == Holds(r, "prepare_deployment_output_topic")
           IN  /\ m.type = "result"
               /\ m.result.tool = "prepare_deployment_transaction"
               /\ m.result.success
               /\ ExistingApproval(m.result.data) # {}

\* C3: a respond for an approval_id whose request is already processed is
\* a no-op: it starts no workflow invocation.
RespondProcessedIsNoOp ==
    \A r \in RunIds :
        (/\ Running(r)
         /\ runs[r].kind = "respond"
         /\ runs[r].approval_id \in DOMAIN approval_requests)
            => ~approval_requests[runs[r].approval_id].processed

\* C4: a request is created with processed=false, and no step removes a
\* request or turns a processed flag back to false.
ProcessedIsStable ==
    [][/\ \A id \in DOMAIN approval_requests :
             /\ id \in DOMAIN approval_requests'
             /\ approval_requests[id].processed => approval_requests'[id].processed
       /\ \A id \in DOMAIN approval_requests' \ DOMAIN approval_requests :
             ~approval_requests'[id].processed]_vars

\* C4 witness: a request has been processed and a later invocation runs
ProcessedThenInvoked ==
    /\ \E id \in DOMAIN approval_requests : approval_requests[id].processed
    /\ \E r \in RunIds : Running(r)

EveryRunTerminates ==
    \A r \in 1..MaxRuns : InProgress(r) ~> ~InProgress(r)

\* C7: a respond for a pending request publishes its decision on the topic
\* the Approval-Response node subscribes to, in the conversation that
\* created the request.
RespondFeedsApprovalNode ==
    \A r \in RunIds :
        (/\ Running(r)
         /\ runs[r].kind = "respond"
         /\ runs[r].approval_id \in Unprocessed)
            => /\ runs[r].topic_name \in Subscribed("deployment_approval_node")
               /\ runs[r].conv = approval_requests[runs[r].approval_id].conv

\* C8: after a rejected decision the broadcast node does not fire and no
\* transaction is submitted.
RejectionSubmitsNothing ==
    \A r \in RunIds :
        (Running(r) /\ Decision(runs[r]) = "rejected")
            => /\ Holds(r, "broadcast_deployment_output_topic") = Empty
               /\ \A t \in Topics : ~Submitted(Holds(r, t))

\* C9: prepare_deployment_transaction with a compilation id that is not in
\* the registry answers success=false with no transaction, and the chat
\* endpoint handling that answer leaves the approval table as it was.
UnknownIdCreatesNoRequest ==
    \A call \in ToolCalls, connected \in BOOLEAN :
        (/\ call.name = "prepare_deployment_transaction"
         /\ call.cid \notin DOMAIN compilation_cache)
            => LET o == prepare_deployment_transaction(call, connected)
               IN  /\ ~o.result.success
                   /\ o.result.data = NoData
                   /\ ~o.sends
                   /\ ChatHandle(ResultOf(o.result), ClientConv) = approval_requests

\* C9 witness: the chat endpoint is handed the answer to a prepare call
\* with an unknown compilation id
UnknownIdResultYielded ==
    \E r \in RunIds :
        /\ Running(r)
        /\ runs[r].kind = "chat"
        /\ LET m == Holds(r, "prepare_deployment_output_topic")
           IN  /\ m.type = "result"
               /\ m.result.tool = "prepare_deployment_transaction"
               /\ m.result.message = "Invalid compilation ID"

\* a text of hex digits, two per byte, bare or behind "0x"
WellFormedHex(s) ==
    LET body == IF Len(s) >= 2 /\ SubSeq(s, 1, 2) = <<"0", "x">>
                THEN SubSeq(s, 3, Len(s)) ELSE s
    IN  /\ Len(body) % 2 = 0
        /\ \A i \in 1..Len(body) : body[i] \in HexDigits

\* C10: broadcast_signed_transaction with a payload that is not valid hex,
\* with or without the 0x prefix, fails and does not reach
\* send_raw_transaction.
MalformedHexNeverSubmitted ==
    \A call \in ToolCalls, connected \in BOOLEAN :
        (call.name = "broadcast_signed_transaction" /\ ~WellFormedHex(call.hex))
            => LET o == broadcast_signed_transaction(call, connected)
               IN  ~o.result.success /\ ~o.sends

\* C10 witness: a broadcast call has failed on decoding its payload
MalformedHexRejected ==
    \E r \in RunIds, t \in Topics :
        /\ Running(r)
        /\ Holds(r, t).type = "result"
        /\ Holds(r, t).result.tool = "broadcast_signed_transaction"
        /\ Holds(r, t).result.message = "Transaction broadcast failed"

\* ------------------------------------------------------------------ C11
\* the last direct call was a successful prepare_deployment_transaction
Prepared ==
    /\ reply.call.name = "prepare_deployment_transaction"
    /\ reply.result.success

Deployed ==
    /\ reply.call.name = "deploy_contract"
    /\ reply.result.success

UintTypes == {"uint8", "uint16", "uint32", "uint64", "uint128", "uint256"}

\* the policy as the specification words it, with the placeholder name and
\* symbol of the tool
PolicyArg(param, signer, name, symbol) ==
    IF param.type = "address" THEN signer
    ELSE IF param.type = "uint256"
    THEN IF param.has \cap {"supply", "amount"} # {} THEN "1000000e18"
         ELSE IF param.has \cap {"cap", "max"} # {} THEN "10000000e18"
         ELSE "0"
    ELSE IF param.type = "string"
    THEN IF "name" \in param.has THEN name
         ELSE IF "symbol" \in param.has THEN symbol
         ELSE ""
    ELSE IF param.type = "uint8" THEN "18"
    ELSE IF param.type \in UintTypes THEN "0"
    ELSE IF param.type = "bool" THEN "False"
    ELSE ""

FollowsPolicy(inputs, name, symbol) ==
    /\ Len(reply.constructor_args) = Len(inputs)
    /\ \A i \in 1..Len(inputs) :
            reply.constructor_args[i] =
                PolicyArg(inputs[i], reply.call.addr, name, symbol)
    /\ reply.warned \cap {"address", "uint256", "string", "uint8"} = {}
    /\ \A i \in 1..Len(inputs) :
            inputs[i].type \notin UintTypes \cup {"address", "string", "bool"}
                => inputs[i].type \in reply.warned

NoConstructorInputs ==
    LET abi == compilation_cache[reply.call.cid].abi
    IN  \A i \in 1..Len(abi) :
            abi[i].type = "constructor" => abi[i].inputs = <<>>

\* C13: for an ABI with no constructor entry, or a constructor with no
\* inputs, the preparation synthesizes an empty argument list and the data
\* of the transaction is the compiled bytecode with nothing appended.
NoInputsNoArguments ==
    Prepared /\ NoConstructorInputs =>
        /\ reply.constructor_args = <<>>
        /\ reply.transaction # None
        /\ reply.transaction[1].data =
                <<compilation_cache[reply.call.cid].bytecode>>

\* a preparation for a contract whose ABI has a function with an input but
\* no constructor
PreparedWithoutConstructor ==
    /\ Prepared
    /\ compilation_cache[reply.call.cid].abi # <<>>
    /\ \A i \in 1..Len(compilation_cache[reply.call.cid].abi) :
            compilation_cache[reply.call.cid].abi[i].type # "constructor"

\* ------------------------------------------------------------------ C14
\* C14: the gas of a prepared transaction is the integer part of 1.2 times
\* the estimate, and not below the estimate, when estimation succeeds, and
\* the caller's gas_limit when it fails; the returned estimated_gas equals
\* the gas field of the transaction in both cases.
GasIsPaddedEstimateOrLimit ==
    Prepared =>
        LET gas == reply.transaction[1].gas
        IN  /\ reply.estimated_gas = Some(gas)
            /\ reply.env.estimate = None => gas = reply.env.gas_limit
            /\ reply.env.estimate # None =>
                    /\ 10 * gas <= 12 * reply.env.estimate[1]
                    /\ 12 * reply.env.estimate[1] < 10 * (gas + 1)
                    /\ gas >= reply.env.estimate[1]

\* a preparation whose estimate times 1.2 is not an integer
EstimatePadded ==
    /\ Prepared
    /\ reply.env.estimate # None
    /\ 10 * reply.transaction[1].gas < 12 * reply.env.estimate[1]

\* ------------------------------------------------------------------ C15
\* C15: prepare_deployment_transaction, succeeding or failing, leaves the
\* compilation registry as it found it and creates or modifies no approval
\* request.
PrepareChangesNothing ==
    reply.call.name = "prepare_deployment_transaction" =>
        /\ compilation_cache = cache_before
        /\ approval_requests = <<>>

\* a preparation that failed after looking its entry up
PrepareFailedOnEntry ==
    /\ reply.call.name = "prepare_deployment_transaction"
    /\ ~reply.result.success
    /\ reply.call.cid \in DOMAIN cache_before

\* ------------------------------------------------------------------ C16
\* C16: an entry of the compilation registry is immutable once inserted:
\* whatever tool is called, every id present before the call is present
\* after it with the same abi, bytecode and source.
EntriesAreImmutable ==
    \A id \in DOMAIN cache_before :
        /\ id \in DOMAIN compilation_cache
        /\ compilation_cache[id] = cache_before[id]

\* a compilation inserted next to an entry of another source
InsertedNextToOther ==
    /\ reply.call.name = "compile_contract"
    /\ reply.result.success
    /\ \E id \in DOMAIN cache_before :
            cache_before[id].source_code # reply.call.src

\* ------------------------------------------------------------------ C17
\* C17: get_abi and get_bytecode are pure lookups: for a known id they
\* return the abi (the bytecode) stored in the entry with success = true,
\* for an unknown id success = false and None, and the registry is as
\* before the call.
LookupsArePure ==
    /\ reply.call.name \in {"get_abi", "get_bytecode"} =>
            /\ compilation_cache = cache_before
            /\ reply.result.success = (reply.call.cid \in DOMAIN cache_before)
            /\ ~reply.result.success => reply.abi = None /\ reply.bytecode = None
    /\ reply.call.name = "get_abi" /\ reply.result.success =>
            reply.abi = Some(cache_before[reply.call.cid].abi)
    /\ reply.call.name = "get_bytecode" /\ reply.result.success =>
            reply.bytecode = Some(cache_before[reply.call.cid].bytecode)

\* a bytecode looked up in a registry of two entries
BytecodeLookedUp ==
    /\ reply.call.name = "get_bytecode"
    /\ reply.result.success
    /\ Cardinality(DOMAIN compilation_cache) = 2

\* ------------------------------------------------------------------ C18
\* the last direct call was a successful compile_contract
Compiled ==
    /\ reply.call.name = "compile_contract"
    /\ reply.result.success

\* C18: every successful compile_contract returns an id that was not in the
\* registry and inserts exactly one entry, under that id, holding the
\* compiled source; so two successful calls with the same source yield two
\* ids and two entries.
CompileInsertsOneFreshEntry ==
    Compiled =>
        /\ reply.compilation_id # None
        /\ reply.compilation_id[1] \notin DOMAIN cache_before
        /\ DOMAIN compilation_cache =
                DOMAIN cache_before \cup {reply.compilation_id[1]}
        /\ compilation_cache[reply.compilation_id[1]].source_code = reply.call.src
        /\ \A id \in DOMAIN cache_before :
                cache_before[id].source_code = reply.call.src =>
                    /\ id # reply.compilation_id[1]
                    /\ Cardinality(DOMAIN compilation_cache) >= 2

\* a source compiled for the second time
SameSourceCompiledAgain ==
    /\ Compiled
    /\ \E id \in DOMAIN cache_before :
            cache_before[id].source_code = reply.call.src

\* ------------------------------------------------------------------ C19
\* C19: a compilation that fails returns success = false, compilation_id
\* None and the compiler's diagnostic in the message, raises nothing and
\* inserts nothing into the registry.
FailedCompileInsertsNothing ==
    reply.call.name = "compile_contract" /\ ~reply.result.success =>
        /\ reply.compilation_id = None
        /\ reply.result.message = "Compilation failed"
        /\ ~reply.raised
        /\ compilation_cache = cache_before

\* a compilation that failed on a registry holding an entry
CompilationFailed ==
    /\ reply.call.name = "compile_contract"
    /\ ~reply.result.success
    /\ compilation_cache # <<>>

\* ------------------------------------------------------------------ C20
\* C20: whatever fails inside compile_contract, get_abi, get_bytecode,
\* deploy_contract, prepare_deployment_transaction or
\* broadcast_signed_transaction comes back as a structured result with
\* success = false and a message; no call ends in an exception raised
\* across the tool boundary.
FailuresAreReturned ==
    /\ ~reply.raised
    /\ reply # NoReply /\ ~reply.result.success =>
            /\ reply.result.tool = reply.call.name
            /\ reply.result.message # ""

\* a deployment that failed on an exception raised inside the tool
DeployExceptionReturned ==
    /\ reply.call.name = "deploy_contract"
    /\ ~reply.result.success
    /\ reply.result.message = "Deployment failed"

\* ================================================= wallet addresses
\* len(wallet_address) != 42, len(v) != 42
AddressLength == 42

\* Texts a caller may pass as an address: two leading characters, then a
\* body of one character followed by a filling, one shorter than, as long
\* as and one longer than an address body.
WalletAddresses ==
    LET Fill(c, n) == [i \in 1..n |-> c]
    IN  {p \o <<c>> \o Fill(d, n) :
            p \in {<<"0", "x">>, <<"0", "X">>, <<"a", "a">>},
            c \in {"a", "F", "z", "+", "_", " "},
            d \in {"a", "z"},
            n \in (AddressLength - 4)..(AddressLength - 2)}

\* str.lower() on the characters of these texts
lower(s) ==
    [i \in 1..Len(s) |->
        CASE s[i] = "A" -> "a" [] s[i] = "B" -> "b" [] s[i] = "C" -> "c"
          [] s[i] = "D" -> "d" [] s[i] = "E" -> "e" [] s[i] = "F" -> "f"
          [] s[i] = "X" -> "x" [] OTHER -> s[i]]

\* int(text, 16): TRUE when it returns, FALSE when it raises ValueError.
\* It skips surrounding whitespace, one sign and one 0x/0X prefix (with one
\* underscore after it), then wants hex digits, single underscores allowed
\* between them.
int_base16_ok(text) ==
    LET inked == {i \in 1..Len(text) : text[i] # " "}
        first == CHOOSE i \in inked : \A j \in inked : i <= j
        last == CHOOSE i \in inked : \A j \in inked : j <= i
        stripped == IF inked = {} THEN <<>> ELSE SubSeq(text, first, last)
        unsigned == IF stripped # <<>> /\ Head(stripped) \in {"+", "-"}
                    THEN Tail(stripped) ELSE stripped
        prefixed == /\ Len(unsigned) >= 2
                    /\ unsigned[1] = "0"
                    /\ unsigned[2] \in {"x", "X"}
        rest == IF prefixed THEN SubSeq(unsigned, 3, Len(unsigned)) ELSE unsigned
        digits == IF prefixed /\ rest # <<>> /\ Head(rest) = "_"
                  THEN Tail(rest) ELSE rest
    IN  /\ digits # <<>>
        /\ \A i \in 1..Len(digits) : digits[i] \in HexDigits \cup {"_"}
        /\ digits[1] # "_"
        /\ digits[Len(digits)] # "_"
        /\ \A i \in 1..(Len(digits) - 1) : ~(digits[i] = "_" /\ digits[i + 1] = "_")

\* DeployContractParams / PrepareDeploymentParams.validate_ethereum_address:
\* TRUE when v is accepted
validate_ethereum_address(v) ==
    /\ StartsWith0x(v)
    /\ Len(v) = AddressLength
    /\ int_base16_ok(SubSeq(v, 3, Len(v)))

\* request.conversation_id or "default", for an id left out and one given
ConversationIds == {"default", "c1"}

\* connect_wallet: the lowered address is stored unless it lacks the prefix
\* or the length, which is answered with HTTP 400
connect_wallet(address, conversation_id) ==
    LET wallet_address == lower(address)
    IN  /\ wallet_sessions' =
              IF ~StartsWith0x(wallet_address) \/ Len(wallet_address) # AddressLength
              THEN wallet_sessions
              ELSE (conversation_id :> wallet_address) @@ wallet_sessions
        /\ UNCHANGED <<approval_requests, compilation_cache, config, chain, events, input_data, runs, sent,
                       approved_seen, gate, server>>

\* disconnect_wallet: wallet_sessions.pop(conversation_id, None)
disconnect_wallet(conversation_id) ==
    /\ wallet_sessions' =
          [c \in DOMAIN wallet_sessions \ {conversation_id} |-> wallet_sessions[c]]
    /\ UNCHANGED <<approval_requests, compilation_cache, config, chain, events, input_data, runs, sent,
                   approved_seen, gate, server>>

WalletNext ==
    \/ \E address \in WalletAddresses, conversation_id \in ConversationIds :
            connect_wallet(address, conversation_id)
    \/ \E conversation_id \in ConversationIds : disconnect_wallet(conversation_id)

WalletSpec == Init /\ [][WalletNext]_vars

\* ================================================= claims C21..C30
\* C21 (as stated): in every state poll returns exactly the requests whose
\* processed flag is false, and has_requests is true iff that set is not
\* empty.
PollListsUnprocessed ==
    /\ poll_approval_requests.requests = Unprocessed
    /\ poll_approval_requests.has_requests = (Unprocessed # {})

\* C21 (amended): in every state in which the assistant was built, poll
\* returns exactly the requests whose processed flag is false, and
\* has_requests is true iff that set is not empty. poll is a read: no action
\* of the model belongs to it, so it changes no request.
PollListsUnprocessedWithAssistant ==
    assistant => PollListsUnprocessed

\* the table holds a processed and an unprocessed request while the
\* assistant is there to be polled
PolledMixedTable ==
    /\ assistant
    /\ Unprocessed # {}
    /\ \E id \in DOMAIN approval_requests : approval_requests[id].processed

\* C22: a respond naming an approval id that is not in the table has no
\* effect: no decision is fed into the workflow, so every invocation
\* started by respond names a request of the table.
UnknownApprovalIdIsRefused ==
    \A r \in RunIds :
        (Running(r) /\ runs[r].kind = "respond")
            => runs[r].approval_id \in DOMAIN approval_requests

\* "0x" followed by exactly 40 hexadecimal characters
IsEthereumAddress(v) ==
    /\ Len(v) = 42
    /\ v[1] = "0"
    /\ v[2] = "x"
    /\ \A i \in 3..Len(v) : v[i] \in HexDigits

\* C23: an address is accepted only if it is "0x" followed by exactly 40
\* hexadecimal characters: every address a wallet session stores, and every
\* text the parameter validators let through, has that format.
OnlyAddressesAccepted ==
    /\ \A c \in DOMAIN wallet_sessions : IsEthereumAddress(wallet_sessions[c])
    /\ \A v \in WalletAddresses : validate_ethereum_address(v) => IsEthereumAddress(v)

\* the configuration the last direct call needed is incomplete
Unconfigured(call) ==
    \/ call.name = "deploy_contract" /\ ~(private_key /\ ethereum_sepolia_rpc)
    \/ /\ call.name \in {"prepare_deployment_transaction",
                         "broadcast_signed_transaction"}
       /\ ~ethereum_sepolia_rpc

\* C24: with the signing key or the RPC endpoint not configured,
\* deploy_contract (and, for a missing endpoint, prepare and broadcast)
\* returns success=false with no transaction, address or gas figure, reads
\* nothing from the chain, whether or not it could be reached, and submits
\* nothing.
UnconfiguredFailsOffChain ==
    Unconfigured(reply.call)
        => /\ ~reply.result.success
           /\ ~reply.raised
           /\ reply.transaction = None
           /\ reply.estimated_gas = None
           /\ reply.env = NoEnv
           /\ \A connected \in BOOLEAN :
                  LET o == ExecuteTool(reply.call, connected)
                  IN  ~o.sends /\ o.result = reply.result
           /\ (~ethereum_sepolia_rpc => ~sent)

\* C24 witness: deploy_contract was called for a compiled contract with the
\* endpoint set and the key missing
DeployedWithoutKey ==
    /\ reply.call.name = "deploy_contract"
    /\ reply.call.cid \in DOMAIN compilation_cache
    /\ ethereum_sepolia_rpc
    /\ ~private_key
    /\ reply.result.message = "Private key not configured"

\* the argument list the other synthesizing tool builds for the ABI and the
\* address of the last call
OtherToolArgs ==
    LET inputs == ConstructorInputs(compilation_cache[reply.call.cid].abi)
    IN  IF reply.call.name = "deploy_contract"
        THEN ConstructorArgs(inputs, reply.call.addr)
        ELSE ServerConstructorArgs(inputs, reply.call.addr)

\* C25 (as stated): for the same ABI and the same address deploy_contract
\* and prepare_deployment_transaction produce the identical constructor
\* argument list.
SynthesisIsShared ==
    Deployed \/ Prepared => reply.constructor_args = OtherToolArgs

\* a string input that gets the tool's placeholder name or symbol
TakesPlaceholder(param) ==
    param.type = "string" /\ param.has \cap {"name", "symbol"} # {}

\* C25 (amended): for the same ABI and the same address the two tools
\* produce argument lists of the same length that agree at every input
\* except the string inputs that take the placeholder token name or symbol.
SynthesisSharedButPlaceholders ==
    Deployed \/ Prepared =>
        LET inputs == ConstructorInputs(compilation_cache[reply.call.cid].abi)
        IN  /\ Len(reply.constructor_args) = Len(OtherToolArgs)
            /\ \A i \in 1..Len(inputs) :
                    ~TakesPlaceholder(inputs[i])
                        => reply.constructor_args[i] = OtherToolArgs[i]

\* C25 witness: deploy_contract went through for the constructor that has
\* an input of every kind
EveryKindDeployed ==
    /\ Deployed
    /\ ConstructorInputs(compilation_cache[reply.call.cid].abi) = TokenInputs

\* a serialized ReasoningResponse: a JSON object carrying both flags
WellFormedResponse(m) ==
    /\ m.kind = "obj"
    /\ m.tool \in {"true", "false"}
    /\ m.dep \in {"true", "false"}

\* the batch of the firing has been routed and was the one message m
RoutedSingle(m) ==
    routing.state # "unpublished" /\ output_batch = <<m>>

\* C26: a reasoning firing whose output is one well-formed ReasoningResponse
\* is published to exactly one of reasoning_output_topic, action_topic and
\* deployment_topic: the first when both flags are false, the second when
\* only requires_tool_call is true, the third when only requires_deployment
\* is true.
ExactlyOneGatePasses ==
    \A m \in ReasoningMessages :
        RoutedSingle(m) /\ WellFormedResponse(m) =>
            /\ routing.state = "published"
            /\ Cardinality(routing.topics) = 1
            /\ (m.tool = "false" /\ m.dep = "false"
                    => routing.topics = {"reasoning_output_topic"})
            /\ (m.tool = "true" /\ m.dep = "false"
                    => routing.topics = {"action_topic"})
            /\ (m.tool = "false" /\ m.dep = "true"
                    => routing.topics = {"deployment_topic"})

\* C26 witness: a single response asking for a tool call and for a
\* deployment has been routed
BothFlagsRouted ==
    \E m \in ReasoningMessages :
        /\ RoutedSingle(m)
        /\ m.kind = "obj"
        /\ m.tool = "true"
        /\ m.dep = "true"

\* C27: a decision marking both requires_tool_call and requires_deployment
\* is rejected: its batch is published neither to action_topic nor to
\* deployment_topic.
BothFlagsRejected ==
    \A m \in ReasoningMessages :
        (/\ RoutedSingle(m)
         /\ m.kind = "obj"
         /\ m.tool = "true"
         /\ m.dep = "true")
            => routing.topics \cap {"action_topic", "deployment_topic"} = {}

\* the approval node of run r fires in this step: its output topic gets a
\* batch
ApprovalNodeFires(r) ==
    /\ Running(r)
    /\ runs[r].pending["deployment_approval_output_topic"] = Empty
    /\ runs'[r].pending["deployment_approval_output_topic"] # Empty

\* C28: the Approval-Response node stays blocked until a message arrives on
\* the incoming approval topic: whatever else happens (other nodes firing,
\* polls, further invocations), it fires only in a step that finds a batch
\* on deployment_approval_topic.
ApprovalNodeWaitsForResponse ==
    [][\A r \in RunIds :
            ApprovalNodeFires(r)
                => runs[r].pending["deployment_approval_topic"] # Empty]_vars

\* C28 witness: a request created from a prepared transaction is waiting,
\* the approval node is not ready in any run, and another invocation has
\* gone as far as executing a tool
WaitingWhileOthersProceed ==
    /\ \E id \in Unprocessed : id.prefix = "chat"
    /\ \A r \in RunIds : ~Ready(r, "deployment_approval_node")
    /\ \E r \in RunIds :
            /\ Running(r)
            /\ runs[r].pending["tool_execution_output_topic"] # Empty

\* in this step run r gets a batch on topic t, which had none
Published(r, t) ==
    /\ Running(r)
    /\ runs[r].pending[t] = Empty
    /\ runs'[r].pending[t] # Empty

\* in this step the batch run r holds on topic t is consumed
ConsumedFrom(r, t) ==
    /\ Running(r)
    /\ runs[r].pending[t] # Empty
    /\ runs'[r].status = "running"
    /\ runs'[r].pending[t] = Empty

RespondOverlapping ==
    \E id \in RespondIds, approved \in BOOLEAN :
        /\ assistant
        /\ Len(runs) < MaxRuns
        /\ runs' = Append(runs,
                          NewRun("respond", FreshConv(Len(runs) + 1),
                                 "deployment_approval_input", id, approved))
        /\ approved_seen' = (approved_seen \/ approved)
        /\ UNCHANGED <<approval_requests, compilation_cache, config,
                       wallet_sessions, chain, events, input_data, sent, gate, server>>

RaceNext ==
    \/ MockRequest
    \/ RespondOverlapping
    \/ WorkflowStep

\* the backend started with its assistant, the server with its environment
RaceInit == Init /\ assistant /\ private_key /\ ethereum_sepolia_rpc

RaceSpec == RaceInit /\ [][RaceNext]_vars

\* C30: of the respond calls that overlap for one pending approval id, one
\* resumes the request: while the request is unprocessed, at most one
\* invocation of the workflow carries a decision for it.
ResumedAtMostOnce ==
    \A r1 \in RunIds, r2 \in RunIds :
        (/\ Running(r1)
         /\ Running(r2)
         /\ runs[r1].kind = "respond"
         /\ runs[r2].kind = "respond"
         /\ runs[r1].approval_id = runs[r2].approval_id
         /\ runs[r1].approval_id \in Unprocessed)
            => r1 = r2

\* ================================================= overlapping chats
\* chat_endpoint is a coroutine too: chats of different conversations are
\* in their async-for over a_invoke at the same time. The body of the loop
\* has no await, so the handling of one yielded event (Deliver) is one step.
\* A conversation is one chat window (two of them here): it sends its next
\* message when the answer to the last one has arrived.
ChatOverlapping ==
    /\ assistant
    /\ Len(runs) < MaxRuns
    /\ \E conv \in {[n |-> 1, src |-> "client"], [n |-> 2, src |-> "client"]} :
          /\ \A r \in RunIds : Running(r) => runs[r].conv # conv
          /\ runs' = Append(runs,
                            NewRun("chat", conv, "agent_input_topic", NoApproval,
                                   FALSE))
    /\ UNCHANGED <<approval_requests, compilation_cache, config, wallet_sessions, chain, events, input_data,
                   sent, approved_seen, gate, server>>

ChatRaceNext ==
    \/ ChatOverlapping
    \/ WorkflowStep

\* the backend with its assistant; the server with an endpoint and, as for
\* the two-phase flow, no signing key of its own
ChatRaceInit == Init /\ assistant /\ ~private_key /\ ethereum_sepolia_rpc

ChatRaceSpec == ChatRaceInit /\ [][ChatRaceNext]_vars

\* the unprocessed requests the chat endpoint created with this data
PendingWith(table, data) ==
    {id \in DOMAIN table :
        id.prefix = "chat" /\ ~table[id].processed /\ table[id].data = data}

\* C31: with chats of different conversations in progress at once, the scan
\* for an unprocessed request and the insertion are one step: a step that
\* inserts a request finds no unprocessed request with its data, and after
\* every step at most one unprocessed request carries a given data.
DeduplicationIsRaceFree ==
    [][\A id \in DOMAIN approval_requests' :
          LET data == approval_requests'[id].data
          IN  /\ id \notin DOMAIN approval_requests
                    => PendingWith(approval_requests, data) = {}
              /\ Cardinality(PendingWith(approval_requests', data)) <= 1]_vars

\* C31 witness: two chats of different conversations are in progress, one
\* has had its request created and the other is about to be handed a
\* prepare result with the same data
SameDataInTwoChats ==
    \E r1 \in RunIds, r2 \in RunIds :
        /\ r1 # r2
        /\ Running(r1)
        /\ Running(r2)
        /\ runs[r1].kind = "chat"
        /\ runs[r2].kind = "chat"
        /\ LET m == Holds(r2, "prepare_deployment_output_topic")
           IN  /\ m.type = "result"
               /\ m.result.tool = "prepare_deployment_transaction"
               /\ m.result.success
               /\ \E id \in PendingWith(approval_requests, m.result.data) :
                      approval_requests[id].conv = runs[r1].conv

\* ================================================= deployments and the nonce
MaxDeploys == 2

\* deploy_contract is a coroutine without an await: the calls that reach the
\* server at the same time are run one after the other, each from its first
\* line to its return. One call: the nonce is get_transaction_count(account)
\* at the latest block; the transaction that carries it is signed and sent;
\* wait_for_transaction_receipt returns the receipt (mined) or raises
\* TimeExhausted, which the except clause turns into "Deployment failed".
DeployOnChain ==
    /\ Len(submitted) < MaxDeploys
    /\ \E cid \in EntryIds, addr \in Addresses, connected \in BOOLEAN, mined \in BOOLEAN :
          LET call == Call("deploy_contract", cid, addr, "", <<>>)
              env == Env(connected, 2000000, None, transaction_count)
              o == deploy_contract(call, connected)
          IN  /\ ~o.sends => ~mined
              /\ reply' = IF o.sends /\ ~mined
                          THEN Plain(call, Failure(call, "Deployment failed"))
                          ELSE DeployReturn(call, env)
              /\ submitted' = IF o.sends THEN Append(submitted, env.nonce)
                              ELSE submitted
              /\ transaction_count' = IF mined THEN transaction_count + 1
                                      ELSE transaction_count
              /\ sent' = (sent \/ o.sends)
              /\ cache_before' = compilation_cache
    /\ UNCHANGED <<approval_requests, compilation_cache, config, wallet_sessions, runs,
                   approved_seen, gate, watched, synth_seen, events, input_data>>

\* the network: a transaction the server sent, and whose receipt it did not
\* see, is included in a block when its nonce is the account's next one
Mine ==
    /\ \E i \in 1..Len(submitted) : submitted[i] = transaction_count
    /\ transaction_count' = transaction_count + 1
    /\ UNCHANGED <<approval_requests, compilation_cache, config, wallet_sessions, runs,
                   sent, approved_seen, gate, server, submitted, events, input_data>>

NonceNext ==
    \/ CallCompile
    \/ DeployOnChain
    \/ Mine

NonceSpec == ServerInit /\ [][NonceNext]_vars

\* C32: no two deployments of the server's signer sign and submit
\* transactions that carry the same nonce.
NoNonceSubmittedTwice ==
    \A i \in 1..Len(submitted), j \in 1..Len(submitted) :
        i # j => submitted[i] # submitted[j]

\* a payload that is no JSON object: text that is not JSON, or a JSON value
\* of another type (null, 0, "", [] among them)
Malformed(m) == m.kind \in {"badjson", "falsy", "nonobj"}

\* C33: a batch that is empty or made of malformed payloads passes no gate
\* and no gate raises on it: the publishing step completes with the batch
\* published to none of the gated topics.
MalformedDoesNotPass ==
    (/\ routing # Unpublished
     /\ \A i \in 1..Len(output_batch) : Malformed(output_batch[i]))
        => routing = Routing("published", {})

\* C34: the conditions of the topics are pure: evaluating them writes
\* nothing, so stdout after a publishing step is what it was before it.
GatesWriteNothing == printed = <<>>

\* the step ends invocation r by an exception: the run is dropped while a
\* topic still holds a batch (a return needs every topic drained)
AbortsIn(r) ==
    /\ Running(r)
    /\ ~Quiescent(r)
    /\ runs'[r] = Finished

MaxMessages == 7

\* a grafi Message as memory/context.py reads it. content: "" (none),
\* "text" (not JSON), "solidity" (a JSON result with solidity_code),
\* "json" (another successful JSON result), "failed" (success false) and
\* "summary" (a message the context builder wrote)
Message(role, content, tool_calls, tool_call_id) ==
    [role |-> role, content |-> content, tool_calls |-> tool_calls,
     tool_call_id |-> tool_call_id]

\* What the workflow records next in the conversation: the reasoning node
\* answers the user message or a tool result; an action or request node
\* answers the reasoning node with text or with one tool call; a
\* function-call node answers a tool call with the result of that call.
NextMessages(last) ==
    IF last.role = "tool" \/ last.role = "user"
    THEN {Message("assistant", "text", <<>>, "")}
    ELSE IF last.tool_calls # <<>>
    THEN {Message("tool", c, <<>>, last.tool_calls[1].id) :
            c \in {"", "text", "solidity", "json", "failed"}}
    ELSE {Message("assistant", "text", <<>>, "")}
         \cup {Message("assistant", "", <<[name |-> t, id |-> Len(events) + 1]>>, "") :
                 t \in {"generate_erc20_contract", "generate_erc721_contract",
                        "compile_contract"}}

\* one pass of the loop over the stored messages: the conversation flow,
\* the pending tool call and the latest successful result of each tool
RECURSIVE ConversationFlow(_, _)
ConversationFlow(messages, n) ==
    IF n = 0 THEN [flow |-> <<>>, pending_tool_call |-> "", latest_tool_results |-> <<>>]
    ELSE LET st == ConversationFlow(messages, n - 1)
             msg == messages[n]
             tool_name == IF st.pending_tool_call # "" THEN st.pending_tool_call
                          ELSE "unknown_tool"
             summary_msg == Message("assistant", "summary", <<>>, "")
         IN  IF msg.role = "user"
             THEN [st EXCEPT !.flow = Append(@, msg)]
             ELSE IF msg.role = "assistant" /\ msg.content # "" /\ msg.tool_calls = <<>>
             THEN [st EXCEPT !.flow = Append(@, msg), !.pending_tool_call = ""]
             ELSE IF msg.role = "assistant" /\ msg.tool_calls # <<>>
             THEN [st EXCEPT !.pending_tool_call = msg.tool_calls[1].name]
             ELSE IF msg.role = "tool" /\ msg.content # ""
             THEN [flow |-> Append(st.flow, summary_msg),
                   pending_tool_call |-> "",
                   latest_tool_results |->
                       IF msg.content \in {"solidity", "json"}
                       THEN (tool_name :> msg.content) @@ st.latest_tool_results
                       ELSE st.latest_tool_results]
             ELSE st

\* get_conversation_context with the size below which the raw tool
\* message is added
BuildContext(messages, below) ==
    LET LastOf(s, n) == IF Len(s) <= n THEN s ELSE SubSeq(s, Len(s) - n + 1, Len(s))
        st == ConversationFlow(messages, Len(messages))
        note == Message("assistant", "summary", <<>>, "")
        closed == IF st.pending_tool_call # "" THEN Append(st.flow, note) ELSE st.flow
        latest == st.latest_tool_results
        context_items ==
            \/ /\ "generate_erc20_contract" \in DOMAIN latest
               /\ latest["generate_erc20_contract"] = "solidity"
            \/ "compile_contract" \in DOMAIN latest
        conversation_flow ==
            IF ~context_items THEN closed
            ELSE IF closed = <<>> THEN <<note>>
            ELSE Append(SubSeq(closed, 1, Len(closed) - 1), note)
                    \o <<closed[Len(closed)]>>
        final_context == LastOf(conversation_flow, 10)
        recent == LastOf(messages, 20)
        recent_tool_messages ==
            {i \in 1..Len(recent) :
                recent[i].role = "tool" /\ recent[i].content = "solidity"}
    IN  IF Len(final_context) < below /\ recent_tool_messages # {}
        THEN Append(final_context,
                    recent[CHOOSE i \in recent_tool_messages :
                              \A j \in recent_tool_messages : j <= i])
        ELSE final_context

\* the raw tool message added to a context of up to three messages
get_conversation_context_eager(messages) == BuildContext(messages, 4)

get_conversation_context(messages) == BuildContext(messages, 3)

\* chat_endpoint up to the publishing of the batch: the context of the
\* conversation and the new user message. The event store records the
\* batch: the messages the context builder wrote and the user message are
\* new to it.
ChatPublishes ==
    LET conversation_history == get_conversation_context(events)
        batch == Append(conversation_history, Message("user", "text", <<>>, ""))
        written == SelectSeq(batch, LAMBDA m : m.content = "summary")
        recorded == events \o written \o <<Message("user", "text", <<>>, "")>>
    IN  /\ assistant
        /\ Len(recorded) <= MaxMessages
        /\ input_data' = batch
        /\ events' = recorded
        /\ UNCHANGED <<approval_requests, compilation_cache, config, wallet_sessions, chain,
                       runs, sent, approved_seen, gate, server>>

\* the workflow records the next message of the invocation in progress
WorkflowRecords ==
    /\ events # <<>>
    /\ Len(events) < MaxMessages
    /\ \E m \in NextMessages(events[Len(events)]) : events' = Append(events, m)
    /\ UNCHANGED <<approval_requests, compilation_cache, config, wallet_sessions, chain,
                   runs, sent, approved_seen, gate, server, input_data>>

ContextNext ==
    \/ ChatPublishes
    \/ WorkflowRecords

ContextSpec == ServerInit /\ [][ContextNext]_vars

\* C36: in the batch the chat endpoint publishes, every tool message
\* answers a tool call of an assistant message that stands before it in the
\* batch.
ToolMessagesAnswerCalls ==
    \A i \in 1..Len(input_data) :
        input_data[i].role = "tool" =>
            \E j \in 1..(i - 1) :
                /\ input_data[j].role = "assistant"
                /\ \E k \in 1..Len(input_data[j].tool_calls) :
                       input_data[j].tool_calls[k].id = input_data[i].tool_call_id

\* C36 witness: a batch was published for a conversation whose stored
\* messages hold the result of a contract generation
PublishedAfterGeneration ==
    /\ input_data # <<>>
    /\ events[Len(events)].role = "user"
    /\ \E i \in 1..Len(events) :
          events[i].role = "tool" /\ events[i].content = "solidity"

\* ================================================= repeated mock requests
MaxMockCalls == 2

\* the approval router alone: mock requests, and the responses to them
MockNext ==
    \/ create_mock_approval_request(MaxMockCalls)
    \/ Respond
    \/ WorkflowStep

MockSpec == RaceInit /\ [][MockNext]_vars

\* C37: whatever operation inserted them, at most one unprocessed request
\* carries a given transaction data.
OneUnprocessedPerDataAfterMock ==
    \A a \in Unprocessed, b \in Unprocessed :
        approval_requests[a].data = approval_requests[b].data => a = b

\* ================================================= a handled request, again
\* The backend after a deployment was prepared, asked for and answered: the
\* registry holds the contract, the table the request of that chat, marked
\* processed; the invocations of that exchange are over.
HandledInit ==
    /\ \E a \in {x \in Addresses : ChecksumOk(x)} :
          LET entry == [abi |-> AbiOf("owned"), bytecode |-> BytecodeOf("owned"),
                        source_code |-> "owned"]
              id == ApprovalId("chat", 1)
              request == Request(id, TransactionData(entry, a), ClientConv)
          IN  /\ compilation_cache = (1 :> entry)
              /\ approval_requests = (id :> [request EXCEPT !.processed = TRUE])
    /\ private_key = FALSE
    /\ ethereum_sepolia_rpc = TRUE
    /\ runs = <<>>
    /\ sent = FALSE
    /\ approved_seen \in BOOLEAN
    /\ output_batch = <<>>
    /\ routing = Unpublished
    /\ reply = NoReply
    /\ watched = NoKey
    /\ synth_seen = {}
    /\ cache_before = <<>>
    /\ assistant = TRUE
    /\ wallet_sessions = <<>>
    /\ transaction_count = 0
    /\ submitted = <<>>
    /\ printed = <<>>
    /\ events = <<>>
    /\ input_data = <<>>

\* the chats that follow, one after the other
HandledSpec == HandledInit /\ [][ChatCall \/ WorkflowStep]_vars

\* the step hands run r a successful prepare result, which its chat
\* handler deals with
HandlesPrepared(r) ==
    /\ Running(r)
    /\ runs[r].kind = "chat"
    /\ Holds(r, "prepare_deployment_output_topic").type = "result"
    /\ Holds(r, "prepare_deployment_output_topic").result.tool =
            "prepare_deployment_transaction"
    /\ Holds(r, "prepare_deployment_output_topic").result.success
    /\ runs'[r].status = "running"
    /\ runs'[r].pending["prepare_deployment_output_topic"] = Empty

\* C38: the scan looks at unprocessed requests only. When the data of a
\* prepare result is that of a processed request and of no unprocessed one,
\* the chat endpoint creates one request: under an id the table did not
\* hold, with this data and processed false; the requests that were in the
\* table, the processed one among them, stay as they were.
ProcessedDoesNotBlock ==
    [][\A r \in RunIds :
          LET data == Holds(r, "prepare_deployment_output_topic").result.data
          IN  (/\ HandlesPrepared(r)
               /\ \E id \in DOMAIN approval_requests :
                     approval_requests[id].processed /\ approval_requests[id].data = data
               /\ \A id \in DOMAIN approval_requests :
                     approval_requests[id].data = data => approval_requests[id].processed)
                  => /\ Cardinality(DOMAIN approval_requests' \ DOMAIN approval_requests) = 1
                     /\ \A id \in DOMAIN approval_requests' \ DOMAIN approval_requests :
                           /\ approval_requests'[id].data = data
                           /\ ~approval_requests'[id].processed
                           /\ approval_requests'[id].approval_id = id
                     /\ \A id \in DOMAIN approval_requests :
                           approval_requests'[id] = approval_requests[id]]_vars

\* C38 witness: the table holds a processed request and, created after it,
\* an unprocessed one with the same data
CreatedBesideProcessed ==
    \E a \in DOMAIN approval_requests, b \in DOMAIN approval_requests :
        /\ a.prefix = "chat"
        /\ b.prefix = "chat"
        /\ approval_requests[a].processed
        /\ ~approval_requests[b].processed
        /\ approval_requests[a].data = approval_requests[b].data

\* the step is the return of respond invocation r after its async-for ended
Completes(r) ==
    /\ Running(r)
    /\ runs[r].kind = "respond"
    /\ Quiescent(r)
    /\ runs'[r] = Finished

\* C39: respond marks its request after the invocation it started has run
\* to completion and touches no other request: a step in which a respond
\* invocation fails leaves the table as it was (the request it was about is
\* as unprocessed as before, and poll lists it as before), and a step that
\* changes a request is the return of a completed respond for that id.
RespondMarksOnCompletion ==
    [][/\ \A r \in RunIds :
             (runs[r].kind = "respond" /\ AbortsIn(r))
                 => /\ approval_requests' = approval_requests
                    /\ poll_approval_requests' = poll_approval_requests
       /\ \A id \in DOMAIN approval_requests :
             /\ id \in DOMAIN approval_requests'
             /\ approval_requests'[id] # approval_requests[id]
                    => \E r \in RunIds : Completes(r) /\ runs[r].approval_id = id]_vars

\* C39 witness: a respond for an unprocessed request is in progress and its
\* tool node is handed a message without a tool call, on which it raises
RespondAboutToFail ==
    \E r \in RunIds :
        /\ Running(r)
        /\ runs[r].kind = "respond"
        /\ runs[r].approval_id \in Unprocessed
        /\ Ready(r, "tool_execution_node")
        /\ Consumed(r, "tool_execution_node").type # "call"
====
